---- MODULE Spec2Model ----
(***************************************************************************)
(* Model of the multi-tier geocoding resolver of the Municipal Permit      *)
(* Scraper: EnhancedGeocodingService (enhanced_geocoding_service.py) and   *)
(* its batch caller SanDiegoCSVScraper._add_geocoding_to_permits.          *)
(*                                                                         *)
(* Conventions.  An address is a sequence of characters, so that           *)
(* str.strip() is computed.  A confidence is counted in hundredths         *)
(* (0.7 is 70).  A Python value that may be None is a tagged record.       *)
(* Every outbound HTTP request is appended to `calls`; what the remote     *)
(* service answers is a nondeterministic choice of the action that issues  *)
(* the request.                                                            *)
(***************************************************************************)
EXTENDS Integers, Sequences, FiniteSets, TLC

\* ------------------------------------------------------------------ bounds
\* Longest list of addresses (or of permits) handed to one run.
MaxLen == 2

\* ------------------------------------------------------------- input sets
SPACE == " "

\* The address strings a direct call draws from: empty, whitespace only, a
\* plain address and the same address with leading whitespace.
Addresses == { <<>>, <<SPACE>>, <<"a">>, <<SPACE, "a">> }

\* The permit.address values the scraper draws from: a second site as well.
PermitAddresses == Addresses \cup { <<"b">> }

\* All lists over S of length 0..n.
RECURSIVE ListsUpTo(_, _)
ListsUpTo(S, n) ==
    IF n = 0 THEN { <<>> }
    ELSE LET shorter == ListsUpTo(S, n - 1)
         IN  shorter \cup { Append(l, x) : l \in { s \in shorter : Len(s) = n - 1 }, x \in S }

\* Caller-supplied thresholds: the default 0.7 and a stricter 0.9.
Thresholds == { 70, 90 }

\* ------------------------------------------------------- Python primitives
\* str.strip(): drop leading and trailing whitespace.
RECURSIVE LStrip(_)
LStrip(s) == IF s # <<>> /\ Head(s) = SPACE THEN LStrip(Tail(s)) ELSE s

RECURSIVE RStrip(_)
RStrip(s) == IF s # <<>> /\ s[Len(s)] = SPACE THEN RStrip(SubSeq(s, 1, Len(s) - 1)) ELSE s

Strip(s) == RStrip(LStrip(s))

\* Mutant: the blank test forgets strip().
NonBlankNoStrip(addr) == addr # <<>>

\* `addr and addr.strip()` is truthy.
NonBlank(addr) == addr # <<>> /\ Strip(addr) # <<>>

\* A float, and None where a float is expected.
Float(v) == [t |-> "float", v |-> v]
PyNone == [t |-> "None", v |-> 0]

\* `confidence >= min_confidence` / `confidence < min_confidence` raise
\* TypeError when confidence is None.
RaisesTypeError(confidence) == confidence.t = "None"

\* ---------------------------------------------------------- result shapes
\* GeocodingResult (the fields the resolver reads), and Optional's None.
\* `formatted_address` stands for the coordinates and the formatted text
\* of the answer: it is the address the answer was given for.
GeocodingResult(confidence, source, address) ==
    [isNone |-> FALSE, confidence |-> confidence, source |-> source,
     formatted_address |-> address]

None == [isNone |-> TRUE, confidence |-> PyNone, source |-> "None",
         formatted_address |-> <<>>]

\* The dictionary batch_geocode_addresses appends per position.
ResultDict(original_address, geocoding_result) ==
    [original_address |-> original_address,
     geocoded |-> ~geocoding_result.isNone,
     confidence |-> geocoding_result.confidence,
     source |-> geocoding_result.source,
     formatted_address |-> geocoding_result.formatted_address]

\* ------------------------------------------------ what the providers answer
\* A remote answer for one address: kind "fail" (network error, non-success
\* status, unparsable payload or empty result set), "missing" (a result
\* without the confidence field), "null" (the field is JSON null) or "num"
\* (the field holds `native`).
Answer(kind, native) == [kind |-> kind, native |-> native]
Fail == Answer("fail", 0)

GeocodioAnswers == { Fail, Answer("missing", 0), Answer("null", 0), Answer("num", 80) }

\* Google answers a location_type; the adapter derives the confidence.
GoogleAnswers == { Fail, Answer("ROOFTOP", 0), Answer("RANGE_INTERPOLATED", 0),
                   Answer("APPROXIMATE", 0) }

\* OpenCage answers on a 0-10 scale.
OpenCageAnswers == { Fail, Answer("null", 0), Answer("num", 3), Answer("num", 8) }

\* Nominatim answers an importance (here in hundredths), which its ranking
\* does not confine to the unit interval.
NominatimAnswers == { Fail, Answer("missing", 0), Answer("num", 10), Answer("num", 150) }

VARIABLES
    environ,            \* names of the API-key variables set in os.environ
    geocodio_api_key,   \* truthiness of self.geocodio_api_key
    google_api_key,     \* truthiness of self.google_api_key
    opencage_api_key,   \* truthiness of self.opencage_api_key
    stats,              \* self.stats
    pc,                 \* position of the run
    caller,             \* "direct" or "scraper"
    permits,            \* permit.address of each permit (scraper runs)
    permit_geo,         \* geocoding written to each permit's raw_data
    addresses,          \* argument of batch_geocode_addresses
    min_confidence,     \* argument
    use_batch_api,      \* argument
    idx,                \* loop position of the per-address loop (1-based)
    address,            \* local `address` of geocode_address (stripped)
    batch_results,      \* value returned by batch_geocode_with_geocodio
    results,            \* the list batch_geocode_addresses builds / returns
    calls,              \* outbound requests of the run, in order
    tried,              \* requests of the geocode_address call in progress, with
                        \* the value each adapter returned (the local `result`)
    batch_failed,       \* the except branch of batch_geocode_with_geocodio ran
    batch_error,        \* the exception that branch caught
    since_last_request, \* time.time() - self.last_request_time as the last step ended
    slept,              \* length of the time.sleep of the last request
    since_sent,         \* per provider requested so far: time since its last request
    last_gap,           \* per provider requested twice: time between its last two requests
    returned_stats,     \* the dictionary get_statistics returned to the caller
    runs                \* calls of batch_geocode_addresses made on the service

\* The distance and pricing step and the OpenCage adapter taken on their own.
VARIABLES
    given,              \* the input: a located permit, or an OpenCage answer
    applied,            \* the function applied to it ("none" before)
    computed            \* what the function wrote or returned

\* A GitHubActionsErrorHandler and its retry_with_backoff.
VARIABLES
    max_retries,        \* self.max_retries
    errors,             \* self.errors: the ScrapingError records, in order
    attempt,            \* loop variable of retry_with_backoff
    handler_pc,         \* position of retry_with_backoff
    trace,              \* what the retry_with_backoff call in progress did so far
    retries             \* calls of retry_with_backoff made on the handler

vars == << environ, geocodio_api_key, google_api_key, opencage_api_key, stats, pc, caller,
           permits, permit_geo, addresses, min_confidence, use_batch_api, idx,
           address, batch_results, results, calls, tried, batch_failed, batch_error,
           since_last_request, slept, since_sent, last_gap, returned_stats, runs,
           given, applied, computed,
           max_retries, errors, attempt, handler_pc, trace, retries >>

keys == << environ, geocodio_api_key, google_api_key, opencage_api_key >>
args == << addresses, min_confidence, use_batch_api >>
scraper == << caller, permits, permit_geo >>
pricing == << given, applied, computed >>
handler == << max_retries, errors, attempt, handler_pc, trace, retries >>

\* One outbound request: the provider endpoint and the addresses it carries.
Call(provider, payload) == [provider |-> provider, payload |-> payload]

Bump(s, counter) == [s EXCEPT ![counter] = @ + 1]

\* No exception was caught by the batch adapter.
NoException == [type |-> "None", item |-> 0]

\* Time is counted in units of 50 ms and every stored duration is capped at
\* the interval it is compared with (a longer one behaves the same).
\* self.rate_limit_delay = 0.1
RateLimitDelay == 2

\* time.sleep(1.1) of geocode_with_nominatim
NominatimSleep == 22

\* Mutant: the free tier goes through self._rate_limit() as well.
UsesRateLimitAlways(provider) == TRUE

\* The adapters that call self._rate_limit() before their request (lines 93,
\* 156, 237, 302); geocode_with_nominatim sleeps on its own instead.
UsesRateLimit(provider) == provider # "nominatim"

Cap(duration, limit) == IF duration > limit THEN limit ELSE duration

\* time.time() - self.last_request_time at the moment a request to
\* `provider` is sent: _rate_limit has just stamped the time; the free tier
\* does not stamp it and has slept NominatimSleep since the last request.
SinceLastRequestAfter(provider) ==
    IF UsesRateLimit(provider) THEN 0
    ELSE Cap(since_last_request + NominatimSleep, RateLimitDelay)

\* An empty dictionary keyed by provider.
NoProvider == [provider \in {} |-> 0]

\* The caller holds no dictionary returned by get_statistics.
NoStatistics == [taken |-> FALSE, shared |-> FALSE, items |-> NoProvider]

\* The environment variable each keyed provider reads its credential from.
EnvVar(provider) ==
    CASE provider = "geocodio" -> "GEOCODIO_API_KEY"
      [] provider = "google"   -> "GOOGLE_MAPS_API_KEY"
      [] provider = "opencage" -> "OPENCAGE_API_KEY"

KeyedProviders == { "geocodio", "google", "opencage" }

Environments == SUBSET { EnvVar(p) : p \in KeyedProviders }

\* os.getenv(name): truthiness of the value read.
Getenv(env, name) == name \in env

\* `os.getenv('GEOCODIO_API_KEY') or '<bundled key>'`: always truthy.
OrBundledKey(value) == value \/ TRUE

\* __init__(env): the Geocodio key falls back to a bundled default and is
\* always set; the other two come from the environment and may be absent.
\* self.last_request_time = 0 lies further back than any interval.
Construct(env) ==
    /\ environ = env
    /\ geocodio_api_key = OrBundledKey(Getenv(env, EnvVar("geocodio")))
    /\ google_api_key = Getenv(env, EnvVar("google"))
    /\ opencage_api_key = Getenv(env, EnvVar("opencage"))
    /\ since_last_request = RateLimitDelay
    /\ slept = 0
    /\ since_sent = NoProvider
    /\ last_gap = NoProvider
    /\ returned_stats = NoStatistics
    /\ runs = 0
    /\ stats = [geocodio_success |-> 0, google_success |-> 0, opencage_success |-> 0,
                nominatim_success |-> 0, total_requests |-> 0, failures |-> 0]
    /\ pc = "idle"
    /\ caller = "direct"
    /\ permits = <<>>
    /\ permit_geo = <<>>
    /\ addresses = <<>>
    /\ min_confidence = 70
    /\ use_batch_api = TRUE
    /\ idx = 0
    /\ address = <<>>
    /\ batch_results = <<>>
    /\ results = <<>>
    /\ calls = <<>>
    /\ tried = <<>>
    /\ batch_failed = FALSE
    /\ batch_error = NoException

\* None where a distance or an amount of money is expected (these floats
\* are held as fractions, see Rat).
NoAmount == [t |-> "None", v |-> [num |-> 0, den |-> 1]]

\* No permit and no answer: the pricing step has nothing to work on.
NoInput ==
    [kind |-> "none", distance_miles |-> NoAmount, dump_fee |-> NoAmount,
     ldp_fee |-> NoAmount, answer |-> Fail]

NotComputed ==
    [roundtrip_minutes |-> PyNone, added_minutes |-> PyNone,
     trucking_price_per_load |-> NoAmount, total_price_per_load |-> NoAmount,
     result |-> None]

NothingGiven == given = NoInput /\ applied = "none" /\ computed = NotComputed

\* def __init__(self, municipality: str, max_retries: int = 3)
DefaultMaxRetries == 3

\* GitHubActionsErrorHandler.__init__: self.errors = []
GitHubActionsErrorHandler(retries_allowed) ==
    /\ max_retries = retries_allowed
    /\ errors = <<>>
    /\ attempt = 0
    /\ handler_pc = "idle"
    /\ trace = <<>>
    /\ retries = 0

\* A service constructed where GEOCODIO_API_KEY is not set, as the
\* repository runs it: the bundled key is in use.  (The value read for
\* that variable never reaches the state: the key is truthy either way.)
\* with nothing handed to the pricing step and an error handler nobody uses.
Init ==
    /\ \E env \in { e \in Environments : EnvVar("geocodio") \notin e } : Construct(env)
    /\ NothingGiven
    /\ GitHubActionsErrorHandler(DefaultMaxRetries)

\* ----------------------------------------------------------------- adapters
\* geocode_with_geocodio: confidence = result.get('accuracy', 0.0).
GeocodioResult(ans, addr, source) ==
    CASE ans.kind = "fail"    -> None
      [] ans.kind = "missing" -> GeocodingResult(Float(0), source, addr)
      [] ans.kind = "null"    -> GeocodingResult(PyNone, source, addr)
      [] OTHER                -> GeocodingResult(Float(ans.native), source, addr)

\* geocode_with_google: 0.9 for ROOFTOP, 0.7 for RANGE_INTERPOLATED, else 0.5.
GoogleConfidence(location_type) ==
    IF location_type = "ROOFTOP" THEN 90
    ELSE IF location_type = "RANGE_INTERPOLATED" THEN 70 ELSE 50

GoogleResult(ans, addr) ==
    IF ans.kind = "fail" THEN None
    ELSE GeocodingResult(Float(GoogleConfidence(ans.kind)), "google", addr)

\* geocode_with_opencage: result.get('confidence', 0.0) / 10.0; a JSON null
\* makes the division raise inside the adapter's try, which returns None.
\* Mutant: the grade is not brought to the 0-1 scale.
OpenCageConfidenceUnscaled(native) == native * 100

OpenCageConfidence(native) == (native * 100) \div 10

OpenCageResult(ans, addr) ==
    CASE ans.kind = "fail"    -> None
      [] ans.kind = "null"    -> None
      [] ans.kind = "missing" -> GeocodingResult(Float(0), "opencage", addr)
      [] OTHER -> GeocodingResult(Float(OpenCageConfidence(ans.native)), "opencage", addr)

\* geocode_with_nominatim: float(result.get('importance', 0.5)); float(None)
\* raises inside the adapter's try, which returns None.
NominatimResult(ans, addr) ==
    CASE ans.kind = "fail"    -> None
      [] ans.kind = "null"    -> None
      [] ans.kind = "missing" -> GeocodingResult(Float(50), "nominatim", addr)
      [] OTHER                -> GeocodingResult(Float(ans.native), "nominatim", addr)

AdapterAnswers(provider) ==
    CASE provider = "geocodio" -> GeocodioAnswers
      [] provider = "google"   -> GoogleAnswers
      [] provider = "opencage" -> OpenCageAnswers
      [] OTHER                 -> NominatimAnswers

AdapterResult(provider, ans, addr) ==
    CASE provider = "geocodio" -> GeocodioResult(ans, addr, "geocodio")
      [] provider = "google"   -> GoogleResult(ans, addr)
      [] provider = "opencage" -> OpenCageResult(ans, addr)
      [] OTHER                 -> NominatimResult(ans, addr)

\* `if not self.<provider>_api_key: return None` (Nominatim needs no key).
HasKey(provider) ==
    CASE provider = "geocodio" -> geocodio_api_key
      [] provider = "google"   -> google_api_key
      [] provider = "opencage" -> opencage_api_key
      [] OTHER                 -> TRUE

SuccessCounter(provider) ==
    CASE provider = "geocodio" -> "geocodio_success"
      [] provider = "google"   -> "google_success"
      [] provider = "opencage" -> "opencage_success"
      [] OTHER                 -> "nominatim_success"

\* ---------------------------------------------------------- geocode_address
\* The provider tried at each position of geocode_address, and the position
\* that follows when the tier's result is not returned.
TierProvider(tier) ==
    CASE tier = "tier1" -> "geocodio"
      [] tier = "tier2" -> "google"
      [] tier = "tier3" -> "opencage"
      [] OTHER          -> "nominatim"

\* Mutant: the free tier is skipped once OpenCage has failed.
NextTierSkipsFreeTier(tier) ==
    CASE tier = "tier1" -> "tier2"
      [] tier = "tier2" -> "tier3"
      [] OTHER          -> "failed"

\* Mutant: when the free tier has failed too, the tiers are gone through again.
NextTierStartsOver(tier) ==
    CASE tier = "tier1" -> "tier2"
      [] tier = "tier2" -> "tier3"
      [] tier = "tier3" -> "tier4"
      [] OTHER          -> "tier1"

NextTier(tier) ==
    CASE tier = "tier1" -> "tier2"
      [] tier = "tier2" -> "tier3"
      [] tier = "tier3" -> "tier4"
      [] OTHER          -> "failed"

\* Mutant: the free tier is held to the threshold as well.
ChecksThresholdEveryTier(tier) == TRUE

\* Tiers 1-3 test `result.confidence >= min_confidence`, tier 4 only `if result`.
ChecksThreshold(tier) == tier # "tier4"

\* Mutant: no tier short-circuits.
MeetsThresholdNever(result, threshold) == FALSE

\* Mutant: any non-null result is accepted.
MeetsThresholdAlways(result, threshold) == TRUE

\* `result and result.confidence >= min_confidence`
MeetsThreshold(result, threshold) == result.confidence.v >= threshold

\* geocode_address returns `r` to the per-address loop of
\* batch_geocode_addresses, which appends its dictionary and moves on.
ReturnToLoop(r) ==
    /\ results' = Append(results, ResultDict(addresses[idx], r))
    /\ idx' = idx + 1
    /\ tried' = <<>>
    /\ pc' = "loop"

\* One tier of geocode_address: the adapter call and the test on its result.
Tier(tier) ==
    /\ pc = tier
    /\ LET provider == TierProvider(tier) IN
       IF ~HasKey(provider)
       THEN /\ pc' = NextTier(tier)
            /\ UNCHANGED << stats, calls, tried, results, idx, since_last_request >>
       ELSE \E ans \in AdapterAnswers(provider) :
              LET r == AdapterResult(provider, ans, address) IN
              LET kept == Append(tried, [provider |-> provider, result |-> r])
                  goOn == /\ pc' = NextTier(tier)
                          /\ tried' = kept
                          /\ UNCHANGED << results, idx >>
              IN
              /\ calls' = Append(calls, Call(provider, << address >>))
              /\ since_last_request' = SinceLastRequestAfter(provider)
              /\ stats' = IF r.isNone THEN stats ELSE Bump(stats, SuccessCounter(provider))
              /\ IF r.isNone
                 THEN goOn
                 ELSE IF ~ChecksThreshold(tier)
                 THEN ReturnToLoop(r)
                 ELSE IF RaisesTypeError(r.confidence)
                 THEN pc' = "raised" /\ tried' = kept /\ UNCHANGED << results, idx >>
                 ELSE IF MeetsThreshold(r, min_confidence)
                 THEN ReturnToLoop(r)
                 ELSE goOn
    /\ UNCHANGED << keys, returned_stats, runs, args, scraper, address, batch_results,
                    batch_failed, batch_error >>

Tier1 == Tier("tier1")
Tier2 == Tier("tier2")
Tier3 == Tier("tier3")
Tier4 == Tier("tier4")

\* All services failed: count the failure and return None.
AllFailed ==
    /\ pc = "failed"
    /\ stats' = Bump(stats, "failures")
    /\ ReturnToLoop(None)
    /\ UNCHANGED << keys, returned_stats, runs, since_last_request, args, scraper, address,
                    batch_results, calls, batch_failed, batch_error >>

\* geocode_address on a blank address: None, before any counter.
GeocodeBlank ==
    /\ pc = "loop"
    /\ idx <= Len(addresses)
    /\ ~NonBlank(addresses[idx])
    /\ ReturnToLoop(None)
    /\ UNCHANGED << keys, returned_stats, runs, since_last_request, args, scraper, stats,
                    address, batch_results, calls, batch_failed, batch_error >>

\* geocode_address on a non-blank address: count the request, strip.
GeocodeAddress ==
    /\ pc = "loop"
    /\ idx <= Len(addresses)
    /\ NonBlank(addresses[idx])
    /\ stats' = Bump(stats, "total_requests")
    /\ address' = Strip(addresses[idx])
    /\ pc' = "tier1"
    /\ UNCHANGED << keys, returned_stats, runs, since_last_request, args, scraper, idx,
                    batch_results, results, calls, tried, batch_failed, batch_error >>

\* The per-address loop is exhausted: batch_geocode_addresses returns results.
LoopReturn ==
    /\ pc = "loop"
    /\ idx > Len(addresses)
    /\ pc' = "done"
    /\ UNCHANGED << keys, returned_stats, runs, since_last_request, args, scraper, stats,
                    idx, address, batch_results, results, calls, tried, batch_failed,
                    batch_error >>

\* ------------------------------------------------ batch_geocode_with_geocodio
\* [None] * n
Nones(n) == [i \in 1..n |-> None]

\* What the batch endpoint answers for a request of n addresses: the request
\* raises (network error, non-success status, unparsable body), or the body
\* holds a list of wrappers, one answer each, not necessarily n of them.  A
\* "malformed" wrapper holds a result without its location.
BatchWrapperAnswers == GeocodioAnswers \cup { Answer("malformed", 0) }

BatchResponses(n) ==
    { [raises |-> TRUE, wrappers |-> <<>>] } \cup
    { [raises |-> FALSE, wrappers |-> w] : w \in ListsUpTo(BatchWrapperAnswers, n + 1) }

\* The loop over data['results'] (lines 183-209): `acc` is the list built so
\* far and `st` the statistics.  A malformed wrapper raises KeyError, and a
\* wrapper with a result at a position past the end of `sent` raises
\* IndexError (addresses[i] is evaluated as the default of formatted_address);
\* either leaves the loop with raised = TRUE.
RECURSIVE ProcessWrappers(_, _, _, _)
ProcessWrappers(wrappers, sent, acc, st) ==
    IF Len(acc) = Len(wrappers)
    THEN [results |-> acc, stats |-> st, raised |-> FALSE]
    ELSE LET i == Len(acc) + 1
             w == wrappers[i]
         IN  IF w.kind = "fail"
             THEN ProcessWrappers(wrappers, sent, Append(acc, None), st)
             ELSE IF w.kind = "malformed" \/ i > Len(sent)
             THEN [results |-> acc, stats |-> st, raised |-> TRUE]
             ELSE ProcessWrappers(wrappers, sent,
                                  Append(acc, GeocodioResult(w, sent[i], "geocodio_batch")),
                                  Bump(st, "geocodio_success"))

\* `while len(results) < len(addresses): results.append(None)`
PadWithNone(res, n) == res \o Nones(IF n > Len(res) THEN n - Len(res) ELSE 0)

\* Mutant: a failure inside the loop keeps the results built before it.
BatchOutcomeKeepsPartial(response, sent, st) ==
    IF response.raises \/ response.wrappers = <<>>
    THEN [results |-> Nones(Len(sent)), stats |-> st, failed |-> response.raises]
    ELSE LET p == ProcessWrappers(response.wrappers, sent, <<>>, st)
         IN  [results |-> PadWithNone(p.results, Len(sent)), stats |-> p.stats,
              failed |-> p.raised]

\* The body of batch_geocode_with_geocodio once the request is sent: the
\* list it returns and the statistics it leaves.
BatchOutcome(response, sent, st) ==
    IF response.raises
    THEN [results |-> Nones(Len(sent)), stats |-> st, failed |-> TRUE]
    ELSE IF response.wrappers = <<>>
    THEN [results |-> Nones(Len(sent)), stats |-> st, failed |-> FALSE]
    ELSE LET p == ProcessWrappers(response.wrappers, sent, <<>>, st)
         IN  IF p.raised
             THEN [results |-> Nones(Len(sent)), stats |-> p.stats, failed |-> TRUE]
             ELSE [results |-> PadWithNone(p.results, Len(sent)), stats |-> p.stats,
                   failed |-> FALSE]

\* The exception the except branch at line 222 catches and the position in
\* data['results'] of the wrapper that raised it (0 if none did; NoException
\* if the body ran to its end): a failure of the request itself, the KeyError
\* of a malformed wrapper, or the IndexError of a result past the end of
\* `sent`.
CaughtException(response, sent) ==
    IF response.raises THEN [type |-> "RequestException", item |-> 0]
    ELSE LET p == ProcessWrappers(response.wrappers, sent, <<>>, stats)
             i == Len(p.results) + 1
         IN  IF ~p.raised THEN NoException
             ELSE IF response.wrappers[i].kind = "malformed"
                  THEN [type |-> "KeyError", item |-> i]
                  ELSE [type |-> "IndexError", item |-> i]

\* ---------------------------------------------------- batch_geocode_addresses
\* valid_addresses = [addr for addr in addresses if addr and addr.strip()]
ValidAddresses(addrs) == SelectSeq(addrs, NonBlank)

\* address_map: original index -> index in valid_addresses (lines 457-463).
AddressMap(addrs) ==
    [i \in { j \in 1..Len(addrs) : NonBlank(addrs[j]) } |->
        Cardinality({ j \in 1..i : NonBlank(addrs[j]) })]

\* `use_batch_api and self.geocodio_api_key and total > 0`
UsesBatchApi(ub, key, total) == ub /\ key /\ total > 0

\* The head of batch_geocode_addresses: bind the arguments, pick the mode.
Enter(addrs, mc, ub) ==
    /\ addresses' = addrs
    /\ min_confidence' = mc
    /\ use_batch_api' = ub
    /\ results' = <<>>
    /\ calls' = <<>>
    /\ batch_results' = <<>>
    /\ address' = <<>>
    /\ tried' = <<>>
    /\ batch_failed' = FALSE
    /\ batch_error' = NoException
    /\ runs' = runs + 1
    /\ idx' = 1
    /\ pc' = IF UsesBatchApi(ub, geocodio_api_key, Len(addrs)) THEN "batch_request" ELSE "loop"

\* A caller invokes batch_geocode_addresses(addresses, min_confidence, use_batch_api).
BatchGeocodeAddresses ==
    /\ pc = "idle"
    /\ \E addrs \in ListsUpTo(Addresses, MaxLen), mc \in Thresholds, ub \in BOOLEAN :
          Enter(addrs, mc, ub)
    /\ caller' = "direct"
    /\ UNCHANGED << keys, returned_stats, since_last_request, stats, permits, permit_geo >>

\* Mutant: a failed batch request degrades the run to the per-address loop.
AfterBatchCallDegrades(failed) == IF failed THEN "loop" ELSE "map_results"

\* Where batch_geocode_addresses continues once batch_geocode_with_geocodio
\* has returned (line 466 to line 468): always at the mapping loop, whether
\* or not the batch request failed.
AfterBatchCall(failed) == "map_results"

\* batch_geocode_with_geocodio(valid_addresses): one POST carrying the list.
BatchGeocodeWithGeocodio ==
    /\ pc = "batch_request"
    /\ LET sent == ValidAddresses(addresses) IN
       IF ~geocodio_api_key \/ sent = <<>>
       THEN /\ batch_results' = Nones(Len(sent))
            /\ pc' = AfterBatchCall(FALSE)
            /\ UNCHANGED << stats, calls, batch_failed, batch_error, since_last_request >>
       ELSE \E response \in BatchResponses(Len(sent)) :
              LET out == BatchOutcome(response, sent, stats) IN
              /\ calls' = Append(calls, Call("geocodio_batch", sent))
              /\ since_last_request' = SinceLastRequestAfter("geocodio")
              /\ batch_results' = out.results
              /\ stats' = out.stats
              /\ batch_failed' = out.failed
              /\ batch_error' = CaughtException(response, sent)
              /\ pc' = AfterBatchCall(out.failed)
    /\ UNCHANGED << keys, returned_stats, runs, args, scraper, idx, address, results,
                    tried >>

\* The result for original position i (lines 471-478); raises when the
\* threshold is compared with a None confidence.
PositionRaises(addrs, i, batch, threshold) ==
    /\ i \in DOMAIN AddressMap(addrs)
    /\ LET r == batch[AddressMap(addrs)[i]] IN ~r.isNone /\ RaisesTypeError(r.confidence)

\* Mutant: the batch path forgets the threshold.
BelowThresholdNever(r, threshold) == FALSE

\* `geocoding_result.confidence < min_confidence`
BelowThreshold(r, threshold) == r.confidence.v < threshold

PositionResult(addrs, i, batch, threshold) ==
    IF i \in DOMAIN AddressMap(addrs)
    THEN LET r == batch[AddressMap(addrs)[i]]
         IN  IF ~r.isNone /\ BelowThreshold(r, threshold) THEN None ELSE r
    ELSE None

\* Map results back to original positions (the loop of lines 469-492).
MapResults ==
    /\ pc = "map_results"
    /\ LET n == Len(addresses)
           bad == { i \in 1..n : PositionRaises(addresses, i, batch_results, min_confidence) }
           upto == IF bad = {} THEN n
                   ELSE (CHOOSE i \in bad : \A j \in bad : i <= j) - 1
       IN  /\ results' = [i \in 1..upto |->
                 ResultDict(addresses[i],
                            PositionResult(addresses, i, batch_results, min_confidence))]
           /\ pc' = IF bad = {} THEN "done" ELSE "raised"
    /\ UNCHANGED << keys, returned_stats, runs, since_last_request, args, scraper, stats,
                    idx, address, batch_results, calls, tried, batch_failed, batch_error >>

\* ------------------------------------------------- _add_geocoding_to_permits
\* `address not in permit_address_map` compares a str with the dictionary's
\* keys, which are list indices: an int never equals a str.
IntEqualsStr(int_key, str_address) == FALSE

AddressIsKey(addr, permit_address_map) ==
    \E k \in DOMAIN permit_address_map : IntEqualsStr(k, addr)

\* list.index: the first position holding the value (0-based).
Index(list, value) ==
    (CHOOSE i \in 1..Len(list) : list[i] = value /\ \A j \in 1..(i - 1) : list[j] # value) - 1

\* One turn of the extraction loop (lines 808-817) for permit i (0-based),
\* on e = [addresses, permit_address_map].
ExtractStep(e, i, permit_address) ==
    IF ~NonBlank(permit_address) THEN e
    ELSE LET addr == Strip(permit_address)
             isNew == ~AddressIsKey(addr, e.permit_address_map)
             addrs == IF isNew THEN Append(e.addresses, addr) ELSE e.addresses
             opened == IF isNew
                       THEN [k \in DOMAIN e.permit_address_map \cup { Len(e.addresses) } |->
                               IF k = Len(e.addresses) THEN <<>> ELSE e.permit_address_map[k]]
                       ELSE e.permit_address_map
             addr_idx == Index(addrs, addr)
         IN  [addresses |-> addrs,
              permit_address_map |-> [opened EXCEPT ![addr_idx] = Append(@, i)]]

RECURSIVE ExtractFrom(_, _, _)
ExtractFrom(e, ps, i) ==
    IF i >= Len(ps) THEN e ELSE ExtractFrom(ExtractStep(e, i, ps[i + 1]), ps, i + 1)

\* The empty dictionary (a function with no key).
EmptyMap == [k \in {} |-> <<>>]

Extract(ps) == ExtractFrom([addresses |-> <<>>, permit_address_map |-> EmptyMap], ps, 0)

\* What the scraper writes into permit.raw_data for a geocoded result.
PermitGeo(result) ==
    [has_coordinates |-> result.geocoded, confidence |-> result.confidence,
     source |-> result.source, formatted_address |-> result.formatted_address]

NoCoordinates == PermitGeo(ResultDict(<<>>, None))

\* The scraper extracts the addresses of its permits and calls
\* batch_geocode_addresses(addresses, min_confidence=0.7, use_batch_api=True).
AddGeocodingToPermits ==
    /\ pc = "idle"
    /\ \E ps \in ListsUpTo(PermitAddresses, MaxLen) :
          /\ permits' = ps
          /\ permit_geo' = [i \in 1..Len(ps) |-> NoCoordinates]
          /\ Enter(Extract(ps).addresses, 70, TRUE)
    /\ caller' = "scraper"
    /\ UNCHANGED << keys, returned_stats, since_last_request, stats >>

\* 0-based permit index p belongs to the bucket of 0-based address index k.
InBucket(map, k, p) == k \in DOMAIN map /\ \E j \in 1..Len(map[k]) : map[k][j] = p

\* Apply results back to permits (lines 824-851).
ApplyResults ==
    /\ pc = "done"
    /\ caller = "scraper"
    /\ LET map == Extract(permits).permit_address_map
           hit(p) == { k \in 0..(Len(results) - 1) :
                         results[k + 1].geocoded /\ InBucket(map, k, p) }
       IN  permit_geo' = [p \in 1..Len(permits) |->
               IF hit(p - 1) = {} THEN permit_geo[p]
               ELSE PermitGeo(results[(CHOOSE k \in hit(p - 1) : TRUE) + 1])]
    /\ pc' = "applied"
    /\ UNCHANGED << keys, returned_stats, runs, since_last_request, args, stats, caller,
                    permits, idx, address, batch_results, results, calls, tried,
                    batch_failed, batch_error >>

\* `except Exception`: a raising batch_geocode_addresses leaves the permits
\* as they were.
ScraperCatches ==
    /\ pc = "raised"
    /\ caller = "scraper"
    /\ pc' = "applied"
    /\ UNCHANGED << keys, returned_stats, runs, since_last_request, args, stats, scraper,
                    idx, address, batch_results, results, calls, tried, batch_failed,
                    batch_error >>

\* ------------------------------------------------------- the service in time
Providers == KeyedProviders \cup { "nominatim" }

\* The provider behind an endpoint: Geocodio serves both of its endpoints.
ProviderOf(endpoint) == IF endpoint = "geocodio_batch" THEN "geocodio" ELSE endpoint

\* The pause each provider is given before a request: rate_limit_delay by
\* _rate_limit, the fixed sleep by geocode_with_nominatim.
MinInterval(provider) == IF UsesRateLimit(provider) THEN RateLimitDelay ELSE NominatimSleep

\* Mutant: _rate_limit never sleeps.
RateLimitSleepNever(time_since_last) == 0

\* _rate_limit: `if time_since_last < self.rate_limit_delay:
\*                  time.sleep(self.rate_limit_delay - time_since_last)`
RateLimitSleep(time_since_last) ==
    IF time_since_last < RateLimitDelay THEN RateLimitDelay - time_since_last ELSE 0

\* Time that can pass between the sending of one request and the entry of
\* the adapter that sends the next: none, less than rate_limit_delay, or as
\* much (more than that changes no stored duration, all are capped).
Elapsed == { 0, 1, RateLimitDelay }

\* The sleep of an adapter entered `elapsed` after the last request.
Pause(provider, elapsed) ==
    IF UsesRateLimit(provider)
    THEN RateLimitSleep(Cap(since_last_request + elapsed, RateLimitDelay))
    ELSE NominatimSleep

\* What the request sent to `endpoint` shows of the time: the sleep before
\* it, and for each provider the time since its last request.
Observe(endpoint, elapsed) ==
    LET provider == ProviderOf(endpoint)
        pause == Pause(provider, elapsed)
        passed == elapsed + pause
    IN  /\ slept' = pause
        /\ since_sent' =
              [q \in DOMAIN since_sent \cup { provider } |->
                  IF q = provider THEN 0 ELSE Cap(since_sent[q] + passed, MinInterval(q))]
        /\ last_gap' =
              IF provider \in DOMAIN since_sent
              THEN [q \in DOMAIN last_gap \cup { provider } |->
                      IF q = provider
                      THEN Cap(since_sent[provider] + passed, MinInterval(provider))
                      ELSE last_gap[q]]
              ELSE last_gap

observed == << slept, since_sent, last_gap >>

\* Step A with the time of its request, if it sends one, observed.
Timed(A) ==
    /\ A
    /\ IF Len(calls') = Len(calls) + 1
       THEN \E elapsed \in Elapsed : Observe(calls'[Len(calls')].provider, elapsed)
       ELSE UNCHANGED observed
    /\ UNCHANGED << pricing, handler >>

\* Step A with the time left unobserved.
Untimed(A) == A /\ UNCHANGED << observed, pricing, handler >>

\* ------------------------------------------------------ the service over runs
MaxRuns == 2

\* min_confidence: float = 0.7
DefaultMinConfidence == 70

\* The address lists of the calls made on a long-lived service.
ServiceInputs == { << <<"a">> >> }

\* A caller invokes batch_geocode_addresses on a service that is idle or has
\* returned (or raised) from its previous call; it has let go of the
\* statistics dictionary it may have read before.
ServiceCall ==
    /\ pc \in { "idle", "done", "raised" }
    /\ runs < MaxRuns
    /\ \E addrs \in ServiceInputs, ub \in BOOLEAN : Enter(addrs, DefaultMinConfidence, ub)
    /\ caller' = "direct"
    /\ returned_stats' = NoStatistics
    /\ UNCHANGED << keys, since_last_request, stats, permits, permit_geo >>

\* Mutant: get_statistics hands out self.stats itself.
DictCopyIsSameObject(d) == [taken |-> TRUE, shared |-> TRUE, items |-> d]

\* dict.copy(): a new dictionary object holding the same items.
DictCopy(d) == [taken |-> TRUE, shared |-> FALSE, items |-> d]

\* get_statistics(): `return self.stats.copy()`
GetStatistics ==
    /\ pc \in { "idle", "done", "raised" }
    /\ returned_stats' = DictCopy(stats)
    /\ UNCHANGED << keys, runs, since_last_request, args, scraper, stats, pc, idx, address,
                    batch_results, results, calls, tried, batch_failed, batch_error >>

\* The caller writes 0 to a counter of the dictionary it was handed; the
\* write lands in self.stats only if the two are the same object.
MutateReturnedStatistics ==
    /\ pc \in { "idle", "done", "raised" }
    /\ returned_stats.taken
    /\ \E counter \in { "total_requests", "failures" } :
          /\ returned_stats.items[counter] # 0
          /\ returned_stats' = [returned_stats EXCEPT !.items[counter] = 0]
          /\ stats' = IF returned_stats.shared THEN [stats EXCEPT ![counter] = 0] ELSE stats
    /\ UNCHANGED << keys, runs, since_last_request, args, scraper, pc, idx, address,
                    batch_results, results, calls, tried, batch_failed, batch_error >>

\* ------------------------------------------------------ distance and pricing
\* The floats of the pricing step, held as exact fractions in lowest terms.
\* Over the distances of the input set the float expressions of the source
\* give the values of exact arithmetic.
RECURSIVE GCD(_, _)
GCD(a, b) == IF b = 0 THEN a ELSE GCD(b, a % b)

Rat(n, d) == [num |-> n \div GCD(n, d), den |-> d \div GCD(n, d)]
RatAdd(a, b) == Rat(a.num * b.den + b.num * a.den, a.den * b.den)
RatMul(a, b) == Rat(a.num * b.num, a.den * b.den)
RatDiv(a, b) == Rat(a.num * b.den, a.den * b.num)

\* int(x) of a non-negative float.
IntOf(a) == a.num \div a.den

\* An int, as a value next to PyNone.
PyInt(v) == [t |-> "int", v |-> v]

\* round(x, 2): the nearest multiple of 0.01.
Round2(a) == Rat((a.num * 200 + a.den) \div (2 * a.den), 100)

\* Distances are drawn in hundredths of a mile, up to MaxDistance of them.
MaxDistance == 1750
Distances == { Rat(m, 100) : m \in 0..MaxDistance }

\* permit.dump_fee / permit.ldp_fee: Optional[float]
DumpFees == { NoAmount, Float(Rat(0, 1)), Float(Rat(45, 1)) }
LdpFees == { NoAmount, Float(Rat(20, 1)) }

\* A permit whose raw_data holds coordinates with a latitude and a
\* longitude, at `distance` miles from the depot.
LocatedPermit(distance, dump_fee, ldp_fee) ==
    [kind |-> "permit", distance_miles |-> Float(distance), dump_fee |-> dump_fee,
     ldp_fee |-> ldp_fee, answer |-> Fail]

\* What OpenCage may answer: no result, a result without "confidence", one
\* with a null, and the ten grades of its scale (0 for "unable to tell").
OpenCageScale == 0..10
OpenCageResponse(ans) ==
    [kind |-> "opencage", distance_miles |-> NoAmount, dump_fee |-> NoAmount,
     ldp_fee |-> NoAmount, answer |-> ans]

PricingInputs ==
    { LocatedPermit(d, df, lf) : d \in Distances, df \in DumpFees, lf \in LdpFees }
    \cup { OpenCageResponse(ans) :
             ans \in { Fail, Answer("missing", 0), Answer("null", 0) }
                     \cup { Answer("num", c) : c \in OpenCageScale } }

\* Assumed average speed, in mph.
AverageSpeed == 35

\* Minutes for loading and unloading.
LoadingMinutes == 10

\* Price per roundtrip minute: 1.83
RatePerMinute == Rat(183, 100)

\* `added_minutes = 5  # Default added minutes` of the county scraper
ScraperAddedMinutes == 5

\* Mutant: the way back is not counted.
RoundtripMinutesOneWay(distance_miles) ==
    IntOf(RatAdd(RatMul(RatDiv(distance_miles, Rat(AverageSpeed, 1)), Rat(60, 1)),
                 Rat(LoadingMinutes, 1)))

\* int((distance_miles / 35) * 60 * 2 + 10)
RoundtripMinutes(distance_miles) ==
    IntOf(RatAdd(RatMul(RatMul(RatDiv(distance_miles, Rat(AverageSpeed, 1)), Rat(60, 1)),
                        Rat(2, 1)),
                 Rat(LoadingMinutes, 1)))

\* GeocodingService.estimate_drive_time
EstimateDriveTime(distance_miles) ==
    LET one_way_minutes == RatMul(RatDiv(distance_miles, Rat(AverageSpeed, 1)), Rat(60, 1))
        roundtrip_minutes == RatAdd(RatMul(one_way_minutes, Rat(2, 1)), Rat(LoadingMinutes, 1))
    IN  IntOf(roundtrip_minutes)

\* trucking_price = (roundtrip_minutes * 1.83) + added_minutes
ScraperTruckingPrice(roundtrip_minutes) ==
    RatAdd(RatMul(Rat(roundtrip_minutes, 1), RatePerMinute), Rat(ScraperAddedMinutes, 1))

\* `permit.dump_fee or 0.0`: None and 0.0 both give 0.0.
OrZero(fee) == IF fee.t = "None" \/ fee.v.num = 0 THEN Rat(0, 1) ELSE fee.v

\* Mutant: the total leaves the LDP fee out.
TotalPriceWithoutLdpFee(dump_fee, trucking_price, ldp_fee) ==
    Round2(RatAdd(OrZero(dump_fee), trucking_price))

\* round(dump_fee + trucking_price + ldp_fee, 2)
TotalPrice(dump_fee, trucking_price, ldp_fee) ==
    Round2(RatAdd(RatAdd(OrZero(dump_fee), trucking_price), OrZero(ldp_fee)))

\* _calculate_distances_and_pricing of the county scraper, for one permit
\* with coordinates.
CalculateDistancesAndPricing ==
    /\ given.kind = "permit"
    /\ applied = "none"
    /\ applied' = "san_diego_county_scraper"
    /\ LET roundtrip_minutes == RoundtripMinutes(given.distance_miles.v)
           trucking_price == ScraperTruckingPrice(roundtrip_minutes)
       IN  computed' =
             [roundtrip_minutes |-> PyInt(roundtrip_minutes),
              added_minutes |-> PyInt(ScraperAddedMinutes),
              trucking_price_per_load |-> Float(Round2(trucking_price)),
              total_price_per_load |->
                  Float(TotalPrice(given.dump_fee, trucking_price, given.ldp_fee)),
              result |-> None]
    /\ UNCHANGED given

\* add_geocoding of the CSV scraper, for one geocoded permit:
\* trucking_price = roundtrip_minutes * 1.83, and no total.
CsvAddGeocoding ==
    /\ given.kind = "permit"
    /\ applied = "none"
    /\ applied' = "csv_based_scraper"
    /\ LET roundtrip_minutes == RoundtripMinutes(given.distance_miles.v)
           trucking_price == RatMul(Rat(roundtrip_minutes, 1), RatePerMinute)
       IN  computed' =
             [roundtrip_minutes |-> PyInt(roundtrip_minutes),
              added_minutes |-> PyNone,
              trucking_price_per_load |-> Float(Round2(trucking_price)),
              total_price_per_load |-> NoAmount,
              result |-> None]
    /\ UNCHANGED given

\* add_geocoding_to_permits of geocoding_integration, for one geocoded
\* permit: trucking_price = (drive_time * 1.83) + 0, and no total.
IntegrationAddGeocoding ==
    /\ given.kind = "permit"
    /\ applied = "none"
    /\ applied' = "geocoding_integration"
    /\ LET drive_time == EstimateDriveTime(given.distance_miles.v)
           trucking_price == RatAdd(RatMul(Rat(drive_time, 1), RatePerMinute), Rat(0, 1))
       IN  computed' =
             [roundtrip_minutes |-> PyInt(drive_time),
              added_minutes |-> PyNone,
              trucking_price_per_load |-> Float(Round2(trucking_price)),
              total_price_per_load |-> NoAmount,
              result |-> None]
    /\ UNCHANGED given

\* geocode_with_opencage for one address, given what OpenCage answers.
GeocodeWithOpencage ==
    /\ given.kind = "opencage"
    /\ applied = "none"
    /\ applied' = "geocode_with_opencage"
    /\ computed' = [NotComputed EXCEPT !.result = OpenCageResult(given.answer, <<"a">>)]
    /\ UNCHANGED given

\* Everything of the geocoding service and of the error handler.
service == << keys, args, scraper, stats, pc, idx, address, batch_results, results, calls,
              tried, batch_failed, batch_error, since_last_request, returned_stats, runs,
              observed >>

\* Step A of the pricing step, which involves neither.
Priced(A) == A /\ UNCHANGED << service, handler >>

InitPricing ==
    /\ Construct({})
    /\ GitHubActionsErrorHandler(DefaultMaxRetries)
    /\ given \in PricingInputs
    /\ applied = "none"
    /\ computed = NotComputed

NextPricing ==
    \/ Priced(CalculateDistancesAndPricing)
    \/ Priced(CsvAddGeocoding)
    \/ Priced(IntegrationAddGeocoding)
    \/ Priced(GeocodeWithOpencage)

\* One permit priced at one of the three call sites, or one OpenCage answer
\* converted.
SpecPricing == InitPricing /\ [][NextPricing]_vars

\* ------------------------------------------------------- the error handler
\* class ErrorSeverity(Enum)
ErrorSeverity == { "low", "medium", "high", "critical" }

\* ScrapingError (the fields the handler reads back).
ScrapingError(error_type, severity, retry_count) ==
    [error_type |-> error_type, severity |-> severity, retry_count |-> retry_count]

\* handle_error: self.errors.append(scraping_error)
HandleErrorAppends(error_type, severity, retry_count) ==
    errors' = Append(errors, ScrapingError(error_type, severity, retry_count))

\* What a retry_with_backoff call did, in order: it invoked func ("call"),
\* recorded an error, slept, returned func's value or raised.  `attempt` is
\* the attempt the event belongs to (for "raise": the attempt whose
\* exception is raised), `seconds` the length of a sleep.
Event(event, of_attempt, seconds, severity) ==
    [event |-> event, attempt |-> of_attempt, seconds |-> seconds, severity |-> severity]

\* Configured retries, calls of retry_with_backoff and errors recorded by
\* other callers of handle_error that the model goes up to.
MaxRetries == 3
MaxCalls == 3
MaxOtherErrors == 1

\* Mutant: the back-off grows linearly.
BackoffTimeLinear(of_attempt) == 2 * of_attempt

\* backoff_time = 2 ** attempt
BackoffTime(of_attempt) == 2 ^ of_attempt

\* Mutant: every failed attempt is recorded as HIGH.
AttemptSeverityAlwaysHigh(final) == "high"

\* ErrorSeverity.HIGH in the `attempt == self.max_retries` branch,
\* ErrorSeverity.LOW in the other.
AttemptSeverity(final) == IF final THEN "high" ELSE "low"

\* `for attempt in range(self.max_retries + 1)` has a turn for `a`.
InRange(a) == a < max_retries + 1

NotInCall == handler_pc \in { "idle", "returned", "raised" }

\* retry_with_backoff is called (error_type left at its default): the loop
\* starts, or there is no turn at all and the call returns None.
RetryWithBackoff ==
    /\ NotInCall
    /\ retries < MaxCalls
    /\ retries' = retries + 1
    /\ attempt' = 0
    /\ trace' = <<>>
    /\ handler_pc' = IF InRange(0) THEN "attempt" ELSE "returned"
    /\ UNCHANGED << max_retries, errors >>

\* One turn of the loop up to its sleep: func returns and the call returns
\* its value, or func raises and the error is recorded, HIGH and re-raised
\* on the last turn, LOW otherwise.
Attempt ==
    /\ handler_pc = "attempt"
    /\ LET called == Append(trace, Event("call", attempt, 0, "none")) IN
       \/ /\ trace' = Append(called, Event("return", attempt, 0, "none"))
          /\ handler_pc' = "returned"
          /\ UNCHANGED errors
       \/ LET final == attempt = max_retries
              severity == AttemptSeverity(final)
              recorded == Append(called, Event("error", attempt, 0, severity))
          IN  /\ HandleErrorAppends("retry_operation", severity, attempt)
              /\ IF final
                 THEN /\ trace' = Append(recorded, Event("raise", attempt, 0, "none"))
                      /\ handler_pc' = "raised"
                 ELSE /\ trace' = recorded
                      /\ handler_pc' = "backoff"
    /\ UNCHANGED << max_retries, attempt, retries >>

\* time.sleep(backoff_time), then the next turn of the loop.
Backoff ==
    /\ handler_pc = "backoff"
    /\ trace' = Append(trace, Event("sleep", attempt, BackoffTime(attempt), "none"))
    /\ attempt' = attempt + 1
    /\ handler_pc' = IF InRange(attempt + 1) THEN "attempt" ELSE "returned"
    /\ UNCHANGED << max_retries, errors, retries >>

OtherErrors == { k \in 1..Len(errors) : errors[k].error_type # "retry_operation" }

\* handle_error called by someone else (check_environment, the wrapper, a
\* scraper) with a severity of its choice, between retry_with_backoff calls.
HandleError ==
    /\ NotInCall
    /\ Cardinality(OtherErrors) < MaxOtherErrors
    /\ \E severity \in ErrorSeverity : HandleErrorAppends("other", severity, 0)
    /\ UNCHANGED << max_retries, attempt, handler_pc, trace, retries >>

\* should_fail_workflow()
ShouldFailWorkflow ==
    LET critical_errors == SelectSeq(errors, LAMBDA e : e.severity = "critical")
        high_errors == SelectSeq(errors, LAMBDA e : e.severity = "high")
    IN  IF critical_errors # <<>> THEN TRUE
        ELSE IF Len(high_errors) >= 3 THEN TRUE
        ELSE FALSE

\* Step A of the handler, which involves neither the geocoding service nor
\* the pricing step.
Handled(A) == A /\ UNCHANGED << service, pricing >>

InitRetry ==
    /\ Construct({})
    /\ NothingGiven
    /\ \E retries_allowed \in 0..MaxRetries : GitHubActionsErrorHandler(retries_allowed)

NextRetry ==
    \/ Handled(RetryWithBackoff)
    \/ Handled(Attempt)
    \/ Handled(Backoff)
    \/ Handled(HandleError)

\* One error handler over up to MaxCalls calls of retry_with_backoff.
SpecRetry == InitRetry /\ [][NextRetry]_vars

\* ------------------------------------------------------------ specification
\* One run of a fresh service, directly or from the scraper.
Next ==
    \/ Untimed(BatchGeocodeAddresses)
    \/ Untimed(AddGeocodingToPermits)
    \/ Untimed(BatchGeocodeWithGeocodio)
    \/ Untimed(MapResults)
    \/ Untimed(GeocodeBlank)
    \/ Untimed(GeocodeAddress)
    \/ Untimed(Tier1)
    \/ Untimed(Tier2)
    \/ Untimed(Tier3)
    \/ Untimed(Tier4)
    \/ Untimed(AllFailed)
    \/ Untimed(LoopReturn)
    \/ Untimed(ApplyResults)
    \/ Untimed(ScraperCatches)

Spec == Init /\ [][Next]_vars

\* A long-lived service: up to MaxRuns calls with the time of every request
\* observed, and a caller that reads the statistics between calls.
NextService ==
    \/ Untimed(ServiceCall)
    \/ Timed(BatchGeocodeWithGeocodio)
    \/ Timed(MapResults)
    \/ Timed(GeocodeAddress)
    \/ Timed(Tier1)
    \/ Timed(Tier2)
    \/ Timed(Tier3)
    \/ Timed(Tier4)
    \/ Timed(AllFailed)
    \/ Timed(LoopReturn)
    \/ Untimed(GetStatistics)
    \/ Untimed(MutateReturnedStatistics)

SpecService == Init /\ [][NextService]_vars

TypeOK ==
    /\ pc \in { "idle", "batch_request", "map_results", "loop", "tier1", "tier2", "tier3",
                "tier4", "failed", "done", "raised", "applied" }
    /\ Len(results) <= Len(addresses)
    /\ since_last_request \in 0..RateLimitDelay
    /\ slept \in 0..NominatimSleep
    /\ DOMAIN last_gap \subseteq DOMAIN since_sent
    /\ DOMAIN since_sent \subseteq Providers
    /\ runs \in 0..MaxRuns
    /\ returned_stats.taken => DOMAIN returned_stats.items = DOMAIN stats
    /\ given.kind \in { "none", "permit", "opencage" }
    /\ applied \in { "none", "san_diego_county_scraper", "csv_based_scraper",
                     "geocoding_integration", "geocode_with_opencage" }
    /\ applied = "none" => computed = NotComputed
    /\ handler_pc \in { "idle", "attempt", "backoff", "returned", "raised" }
    /\ max_retries \in 0..(MaxRetries + DefaultMaxRetries)
    /\ attempt \in 0..max_retries
    /\ retries \in 0..MaxCalls
    /\ \A k \in 1..Len(errors) : errors[k].severity \in ErrorSeverity

\* ==================================================================== claims
\* Vocabulary of the claims, stated without the operators of the model.

\* Empty or whitespace only.
IsBlank(addr) == \A k \in 1..Len(addr) : addr[k] = SPACE

\* The address with its leading and trailing blanks removed, for the
\* addresses of the input sets (at most one leading blank).
Trimmed(addr) == IF Len(addr) > 1 /\ addr[1] = SPACE THEN Tail(addr) ELSE addr

BatchCalls == { j \in 1..Len(calls) : calls[j].provider = "geocodio_batch" }
SingleCalls == { j \in 1..Len(calls) : calls[j].provider # "geocodio_batch" }
CallsTo(provider) == { j \in 1..Len(calls) : calls[j].provider = provider }

\* batch_geocode_addresses has returned its list.
Returned == pc = "done"

\* The non-blank addresses of a list, each once, in first-occurrence order.
RECURSIVE DistinctNonBlank(_, _)
DistinctNonBlank(list, seen) ==
    IF list = <<>> THEN <<>>
    ELSE IF IsBlank(Head(list)) \/ Head(list) \in seen
         THEN DistinctNonBlank(Tail(list), seen)
         ELSE << Head(list) >> \o DistinctNonBlank(Tail(list), seen \cup { Head(list) })

\* The dictionary of a position that was not geocoded.
NullEntry(original_address) ==
    [original_address |-> original_address, geocoded |-> FALSE, confidence |-> PyNone,
     source |-> "None", formatted_address |-> <<>>]

\* ------------------------------------------------------------------------ C1
\* C1 (as claimed): whatever the providers answer, batch_geocode_addresses
\* returns a list with one entry per input address, entry i carrying
\* addresses[i] as its original_address.  The call must therefore return:
\* a run that ends by raising returns no list.
C1_ReturnsOneEntryPerAddress ==
    /\ pc # "raised"
    /\ Returned =>
         /\ Len(results) = Len(addresses)
         /\ \A i \in 1..Len(addresses) : results[i].original_address = addresses[i]

\* Lemma (not a claim): every list that is returned has one entry per input
\* address, in input order.
ReturnedListMatchesInput ==
    Returned =>
      /\ Len(results) = Len(addresses)
      /\ \A i \in 1..Len(addresses) : results[i].original_address = addresses[i]

\* ------------------------------------------------------------------------ C2
Rank(provider) ==
    CASE provider = "geocodio" -> 1
      [] provider = "google"   -> 2
      [] provider = "opencage" -> 3
      [] OTHER                 -> 4

\* The rank of the tier geocode_address is about to try ("failed": none left).
PcRank ==
    CASE pc = "tier1" -> 1
      [] pc = "tier2" -> 2
      [] pc = "tier3" -> 3
      [] pc = "tier4" -> 4
      [] OTHER        -> 5

InGeocodeAddress == pc \in { "tier1", "tier2", "tier3", "tier4", "failed" }

\* The adapter returned null, or a confidence below the threshold.
Rejected(r) == r.isNone \/ (r.confidence.t = "float" /\ r.confidence.v < min_confidence)

\* Non-blank positions already answered by something else than tier 1.
NotSettledByPrimary ==
    { i \in 1..Len(results) : ~IsBlank(addresses[i]) /\ results[i].source # "geocodio" }

\* C2: within one geocode_address call the requests go out in the order
\* geocodio, google, opencage, nominatim; a tier is reached only when every
\* request made before it returned null or a confidence below the threshold;
\* hence google, opencage and nominatim are called at most once per address
\* that the primary did not settle (zero times when it did).
C2_TiersInPriorityOrder ==
    /\ Len(tried) <= Len(calls)
    /\ \A j \in 1..Len(tried) :
         /\ calls[Len(calls) - Len(tried) + j] = Call(tried[j].provider, << address >>)
         /\ \A i \in 1..(j - 1) :
              /\ Rank(tried[i].provider) < Rank(tried[j].provider)
              /\ Rejected(tried[i].result)
    /\ InGeocodeAddress =>
         \A j \in 1..Len(tried) :
            Rank(tried[j].provider) < PcRank /\ Rejected(tried[j].result)
    /\ \A provider \in { "google", "opencage", "nominatim" } :
         Cardinality(CallsTo(provider)) <=
            Cardinality(NotSettledByPrimary) + (IF pc \in { "loop", "done" } THEN 0 ELSE 1)

\* Witness: a returned two-address run whose first address the primary
\* settled alone and whose second address went down to the free fallback.
C2_Witness ==
    /\ Returned
    /\ Len(results) = 2
    /\ results[1].source = "geocodio"
    /\ results[2].source = "nominatim"
    /\ calls[1].provider = "geocodio" /\ calls[2].provider = "geocodio"
    /\ Cardinality(CallsTo("nominatim")) = 1

C4_BatchCarriesDistinctAddresses ==
    \A j \in BatchCalls :
       calls[j].payload = DistinctNonBlank(addresses, {})

\* ------------------------------------------------------------------------ C5
\* C5 (as claimed): after a batch run, positions (and permits) with the same
\* address carry the same result, and every blank position is null.
C5_SameAddressSameResult ==
    /\ (Returned /\ BatchCalls # {}) =>
          /\ \A i, j \in 1..Len(addresses) :
                addresses[i] = addresses[j] => results[i] = results[j]
          /\ \A i \in 1..Len(addresses) :
                IsBlank(addresses[i]) => results[i] = NullEntry(addresses[i])
    /\ pc = "applied" =>
          \A p, q \in 1..Len(permits) : permits[p] = permits[q] => permit_geo[p] = permit_geo[q]

\* ------------------------------------------------------------------------ C6
ZeroStats ==
    [geocodio_success |-> 0, google_success |-> 0, opencage_success |-> 0,
     nominatim_success |-> 0, total_requests |-> 0, failures |-> 0]

\* No request carries a blank address; a blank position is answered null;
\* an input of blanks only sends nothing and counts nothing.
C6_BlankState ==
    /\ \A j \in 1..Len(calls) :
          \A k \in 1..Len(calls[j].payload) : ~IsBlank(calls[j].payload[k])
    /\ \A i \in 1..Len(results) :
          IsBlank(addresses[i]) => results[i] = NullEntry(addresses[i])
    /\ (\A i \in 1..Len(addresses) : IsBlank(addresses[i])) =>
          calls = <<>> /\ stats = ZeroStats

\* The per-address loop standing at a blank address answers null for it,
\* sends nothing and leaves every counter as it is.
C6_BlankStep ==
    (pc = "loop" /\ idx <= Len(addresses) /\ IsBlank(addresses[idx])) =>
       /\ results' = Append(results, NullEntry(addresses[idx]))
       /\ calls' = calls
       /\ stats' = stats

\* C6: a blank address (empty or whitespace only) is never sent to any
\* provider, in per-address mode and in batch mode alike: it yields a null
\* result with no request and without changing any statistics counter.
C6_BlankNeverSent == [](C6_BlankState) /\ [][C6_BlankStep]_vars

\* Witness: a returned run over a whitespace-only address and a real one,
\* in which a request went out.
C6_Witness ==
    /\ Returned
    /\ Len(addresses) = 2
    /\ addresses[1] = << SPACE >>
    /\ ~IsBlank(addresses[2])
    /\ calls # <<>>
    /\ ~results[1].geocoded

\* ------------------------------------------------------------------------ C7
\* C7: whenever geocode_address reaches the free tier and Nominatim returns
\* a result (its success counter moves), that result is returned as final,
\* whatever its confidence: it becomes the entry of the current position.
C7_FreeTierBypassesThreshold ==
    [][ (pc = "tier4" /\ stats'.nominatim_success = stats.nominatim_success + 1) =>
          /\ pc' = "loop"
          /\ Len(results') = Len(results) + 1
          /\ SubSeq(results', 1, Len(results)) = results
          /\ results'[Len(results')].original_address = addresses[idx]
          /\ results'[Len(results')].geocoded
          /\ results'[Len(results')].source = "nominatim" ]_vars

\* Witness: an entry from Nominatim whose confidence is below the threshold.
C7_Witness ==
    \E i \in 1..Len(results) :
       /\ results[i].source = "nominatim"
       /\ results[i].geocoded
       /\ results[i].confidence.v < min_confidence

\* ------------------------------------------------------------------------ C8
\* C8: every result geocode_address returns from one of the first three
\* tiers has a confidence at or above the caller's threshold.
C8_FirstThreeTiersMeetThreshold ==
    \A i \in 1..Len(results) :
       results[i].source \in { "geocodio", "google", "opencage" } =>
          /\ results[i].geocoded
          /\ results[i].confidence.t = "float"
          /\ results[i].confidence.v >= min_confidence

\* Witness: a single address answered by the second tier under the stricter
\* threshold, after the primary returned a result (its counter moved) that
\* was below the threshold and was not returned.
C8_Witness ==
    /\ Returned
    /\ min_confidence = 90
    /\ Len(addresses) = 1
    /\ results[1].source = "google"
    /\ stats.geocodio_success = 1

\* ------------------------------------------------------------------------ C9
\* C9: batch and per-address modes are never mixed within one run: either
\* the batch endpoint is called (at most once) and no single-address request
\* is made, or only single-address requests are made.
C9_ModesNeverMixed ==
    /\ Cardinality(BatchCalls) <= 1
    /\ BatchCalls # {} => SingleCalls = {}
    /\ (pc # "idle" /\ use_batch_api /\ Len(addresses) > 0) => SingleCalls = {}
    /\ (pc # "idle" /\ ~use_batch_api) => BatchCalls = {}

\* Witness: a returned batch run whose batch request failed.
C9_Witness ==
    /\ Returned
    /\ Cardinality(BatchCalls) = 1
    /\ batch_failed
    /\ \E i \in 1..Len(addresses) : ~IsBlank(addresses[i])

\* ----------------------------------------------------------------------- C10
\* The position of original index i among the non-blank addresses.
SentPosition(i) == Cardinality({ j \in 1..i : ~IsBlank(addresses[j]) })

\* The batch answered position i with a confidence below the threshold.
AnsweredBelowThreshold(i) ==
    /\ ~IsBlank(addresses[i])
    /\ SentPosition(i) <= Len(batch_results)
    /\ ~batch_results[SentPosition(i)].isNone
    /\ batch_results[SentPosition(i)].confidence.t = "float"
    /\ batch_results[SentPosition(i)].confidence.v < min_confidence

\* C10: in batch mode a returned result whose confidence is below the
\* threshold becomes null (geocoded false) at its position, and no other
\* provider is consulted: the batch request stays the only request.
C10_BatchAppliesThresholdWithoutCascade ==
    (BatchCalls # {} /\ pc \in { "done", "raised", "applied" }) =>
       /\ \A i \in 1..Len(results) :
             AnsweredBelowThreshold(i) => results[i] = NullEntry(addresses[i])
       /\ Len(calls) = 1

\* Witness: a returned batch run in which an answer of confidence 0.8 was
\* discarded under the threshold 0.9.
C10_Witness ==
    /\ Returned
    /\ min_confidence = 90
    /\ \E i \in 1..Len(results) :
          /\ AnsweredBelowThreshold(i)
          /\ batch_results[SentPosition(i)].confidence.v = 80
          /\ ~results[i].geocoded

\* ----------------------------------------------------------------------- C11
\* C11 (as claimed): no provider failure, a null confidence field included,
\* ever surfaces as an exception from geocode_address or
\* batch_geocode_addresses: no run ends by raising.
C11_NoExceptionSurfaces == pc # "raised"

\* ----------------------------------------------------------------------- C12
\* The batch adapter has returned to batch_geocode_addresses.
BatchReturned == BatchCalls # {} /\ pc \in { "map_results", "done", "raised", "applied" }

\* The positions of the list the batch adapter returned that hold a result.
BatchAnswered == { k \in 1..Len(batch_results) : ~batch_results[k].isNone }

\* C12 (as claimed): in the batch adapter the failure of one item (a
\* malformed payload for one of the addresses sent) yields null for that
\* item only: the results of the other addresses of the same response are
\* still returned, so the list the adapter returns holds every result it
\* built before it met the malformed item (one per geocodio_success counted).
C12_ItemFailureKeepsOtherResults ==
    (BatchReturned /\ batch_error.type = "KeyError" /\ batch_error.item <= Len(batch_results)) =>
        Cardinality(BatchAnswered) = stats.geocodio_success

\* ----------------------------------------------------------------------- C13
\* C13 (as claimed): batch_geocode_with_geocodio returns a list of exactly
\* the length of the list it was given, also when the response holds fewer
\* or more wrappers than addresses were sent.
C13_BatchListHasInputLength ==
    BatchReturned =>
        Len(batch_results) = Cardinality({ i \in 1..Len(addresses) : ~IsBlank(addresses[i]) })

\* ----------------------------------------------------------------------- C14
\* The requests of the run that went to a provider, over any of its endpoints.
RequestsTo(provider) ==
    { j \in 1..Len(calls) :
        \/ calls[j].provider = provider
        \/ provider = "geocodio" /\ calls[j].provider = "geocodio_batch" }

\* The credential of a provider is absent from the environment the service
\* was constructed in.
CredentialAbsent(provider) == EnvVar(provider) \notin environ

\* C14 (as claimed): a provider whose credential is absent at construction is
\* excluded for the lifetime of the service: no request is ever sent to it
\* (no bundled secret stands in for the missing credential).
C14_AbsentCredentialExcludesProvider ==
    \A provider \in KeyedProviders :
        CredentialAbsent(provider) => RequestsTo(provider) = {}

\* Lemma: the claim holds of the two providers without a bundled default;
\* construction succeeds in every environment and the free tier is still
\* tried when all three credentials are absent.
AbsentKeyExcludesGoogleAndOpenCage ==
    \A provider \in { "google", "opencage" } :
        CredentialAbsent(provider) => RequestsTo(provider) = {}

\* ----------------------------------------------------------------------- C17
\* The non-blank positions of the input, and those reported geocoded false.
NonBlankPositions == { i \in 1..Len(addresses) : ~IsBlank(addresses[i]) }
ReportedFailed == { i \in NonBlankPositions : i <= Len(results) /\ ~results[i].geocoded }

\* The counters account for every non-blank address of the run (the
\* counters start the run at zero).
CountersAccount ==
    /\ stats.total_requests = Cardinality(NonBlankPositions)
    /\ stats.failures = Cardinality(ReportedFailed)

\* C17 (as claimed): after a run, in batch mode as well as in per-address
\* mode, total_requests equals the number of resolution attempts (one per
\* non-blank address) and failures equals the number of addresses reported
\* geocoded false.
C17_CountersAccountForEveryAddress == Returned => CountersAccount

\* Lemma: the claim holds of the runs that resolved address by address.
PerAddressCountersAccount == (Returned /\ BatchCalls = {}) => CountersAccount

\* ----------------------------------------------------------------------- C18
\* This step is the return of geocode_address to the per-address loop: one
\* entry is appended for the address at the loop position.
PerAddressReturn ==
    /\ pc \in { "loop", "tier1", "tier2", "tier3", "tier4", "failed" }
    /\ Len(results') = Len(results) + 1

\* Every tier was tried for the address in progress and none produced a
\* result that was accepted: all requests came back null or below threshold,
\* the last of them from the free tier, which came back null.
AllFourTiersFailed ==
    /\ tried # <<>>
    /\ tried[Len(tried)].provider = "nominatim"
    /\ tried[Len(tried)].result.isNone
    /\ \A provider \in KeyedProviders :
          HasKey(provider) => \E k \in 1..Len(tried) : tried[k].provider = provider
    /\ \A k \in 1..Len(tried) :
          tried[k].result.isNone \/ tried[k].result.confidence.v < min_confidence

\* C18: in per-address resolution the failures counter is incremented by
\* exactly one when, and only when, a non-blank address ends with a null
\* result after all four tiers were tried, and is unchanged by every other
\* step, in particular whenever a result is returned.
C18_FailureStep ==
    /\ stats'.failures \in { stats.failures, stats.failures + 1 }
    /\ stats'.failures = stats.failures + 1 <=>
          /\ PerAddressReturn
          /\ ~IsBlank(addresses[idx])
          /\ ~results'[Len(results')].geocoded
    /\ stats'.failures = stats.failures + 1 => AllFourTiersFailed

C18_FailuresCountNullResolutions == [][C18_FailureStep]_vars

\* A run counted one failure for its second address after returning a
\* result for its first.
C18_Witness ==
    /\ Returned
    /\ BatchCalls = {}
    /\ Len(results) = 2
    /\ results[1].geocoded
    /\ ~results[2].geocoded
    /\ stats.failures = 1
    /\ stats.total_requests = 2

\* ----------------------------------------------------------------------- C20
\* C20 (as claimed): every non-null geocoding result, from any provider,
\* carries a confidence in [0, 1] (0..100 hundredths), whatever native value
\* the provider returned.
C20_ConfidenceInUnitInterval ==
    \A i \in 1..Len(results) :
        results[i].geocoded =>
            /\ results[i].confidence.t = "float"
            /\ results[i].confidence.v >= 0
            /\ results[i].confidence.v <= 100

\* ----------------------------------------------------------------------- C15
\* The minimum interval of each provider, in units of 50 ms: 100 ms, and
\* 1100 ms for the free tier.
ClaimedInterval(provider) == IF provider = "nominatim" THEN 22 ELSE 2

\* C15: whatever the sequence of resolutions, the last two requests sent to
\* a provider (over any of its endpoints) lie at least that provider's
\* minimum interval apart.
C15_CallsSpacedByMinInterval ==
    \A provider \in DOMAIN last_gap : last_gap[provider] >= ClaimedInterval(provider)

\* Geocodio and the free tier have each been requested twice, the two
\* Geocodio requests exactly 100 ms apart.
C15_Witness ==
    /\ { "geocodio", "nominatim" } \subseteq DOMAIN last_gap
    /\ last_gap["geocodio"] = 2
    /\ last_gap["nominatim"] = 22
    /\ runs = 2

\* ----------------------------------------------------------------------- C16
\* This step sends a request to the provider.
SendsTo(provider) ==
    /\ Len(calls') = Len(calls) + 1
    /\ \/ calls'[Len(calls')].provider = provider
       \/ provider = "geocodio" /\ calls'[Len(calls')].provider = "geocodio_batch"

\* C16 (as claimed): the rate-limit clocks are independent: a request to a
\* provider is delayed only by that provider's own previous request, never
\* by a call to a different provider.
C16_NoCrossProviderDelayStep ==
    \A provider \in KeyedProviders :
        (SendsTo(provider) /\ slept' > 0) =>
            /\ provider \in DOMAIN since_sent
            /\ since_sent[provider] < ClaimedInterval(provider)

C16_NoCrossProviderDelay == [][C16_NoCrossProviderDelayStep]_vars

\* C16 (amended): Geocodio (both endpoints), Google and OpenCage share one
\* clock: a request to any of them restarts it, and waits for what is left
\* of 100 ms since the last request to any of them.  Only the free tier is
\* independent of it: its request leaves the shared clock running and is
\* preceded by its own fixed sleep.
C16_SharedClockStep ==
    /\ \A provider \in KeyedProviders :
          SendsTo(provider) =>
              /\ since_last_request' = 0
              /\ slept' >= 0
              /\ slept' <= RateLimitDelay - since_last_request
    /\ SendsTo("nominatim") =>
          /\ since_last_request' = RateLimitDelay
          /\ slept' = NominatimSleep

C16_OneClockForKeyedProviders ==
    /\ [](since_last_request \in 0..RateLimitDelay)
    /\ [][C16_SharedClockStep]_vars

\* The first request ever sent to Google slept the full 100 ms, because a
\* request to Geocodio had just been sent.
C16_Witness ==
    /\ calls # <<>>
    /\ calls[Len(calls)].provider = "google"
    /\ "google" \notin DOMAIN last_gap
    /\ since_sent["geocodio"] = RateLimitDelay
    /\ slept = RateLimitDelay
    /\ runs = 1

\* ----------------------------------------------------------------------- C19
\* C19: no step decreases a counter (the statistics are never reset, also
\* not by a new call), and a step in which the caller receives or writes the
\* dictionary of get_statistics leaves the counters and every other part of
\* the service unchanged.
C19_StatisticsStep ==
    /\ \A counter \in DOMAIN stats : stats'[counter] >= stats[counter]
    /\ (returned_stats'.taken /\ returned_stats' # returned_stats) =>
          UNCHANGED << keys, stats, since_last_request, runs, args, scraper, pc, idx,
                       address, batch_results, results, calls, tried, batch_failed,
                       batch_error, observed >>

C19_StatisticsNeverResetSnapshotDetached == [][C19_StatisticsStep]_vars

\* After two counted resolutions the caller holds the dictionary it was
\* handed and has overwritten total_requests in it; the service still
\* counts two.
C19_Witness ==
    /\ returned_stats.taken
    /\ returned_stats.items.total_requests = 0
    /\ returned_stats.items.failures = stats.failures
    /\ stats.total_requests = 2
    /\ runs = 2

\* ------------------------------------------------- C21 .. C24: the formulas
PricingSites == { "san_diego_county_scraper", "csv_based_scraper", "geocoding_integration" }

\* A distance in hundredths of a mile, an amount of money in cents.
Hundredths(amount) == (amount.v.num * 100) \div amount.v.den

\* An absent fee counts as 0.
FeeCents(fee) == IF fee.t = "None" THEN 0 ELSE Hundredths(fee)

\* C21: the OpenCage adapter turns a native confidence c of the 0-10 scale
\* into c / 10 (here 10 * c hundredths; 8 gives 0.8), and an answer without
\* the field into confidence 0.
C21_OpenCageConfidenceIsTenth ==
    applied = "geocode_with_opencage" =>
        /\ given.answer.kind = "num" =>
              /\ ~computed.result.isNone
              /\ computed.result.source = "opencage"
              /\ computed.result.confidence = Float(10 * given.answer.native)
        /\ given.answer.kind = "missing" =>
              /\ ~computed.result.isNone
              /\ computed.result.confidence = Float(0)

C21_Witness ==
    /\ applied = "geocode_with_opencage"
    /\ given.answer = Answer("num", 8)
    /\ computed.result.confidence = Float(80)

\* The answer without the field has been converted as well.
C21_WitnessMissing ==
    /\ applied = "geocode_with_opencage"
    /\ given.answer.kind = "missing"
    /\ computed.result.confidence = Float(0)

\* C22: at every call site the trucking price is
\* round(roundtrip_minutes * 1.83 + added_minutes, 2) with the added minutes
\* the caller supplied, 0 by default; no call site takes any from its
\* caller, so the price is 183 cents per roundtrip minute (69 minutes give
\* 126.27) wherever the permit is priced.
C22_TruckingPriceSameAtEverySite ==
    applied \in PricingSites =>
        Hundredths(computed.trucking_price_per_load) = computed.roundtrip_minutes.v * 183

C23_WitnessZero ==
    /\ applied = "san_diego_county_scraper"
    /\ Hundredths(given.distance_miles) = 0
    /\ computed.roundtrip_minutes = PyInt(10)

\* C24: a permit the county scraper priced has total_price_per_load =
\* dump_fee + trucking_price_per_load + ldp_fee to the cent, an absent fee
\* counting as 0.
C24_TotalIsSumOfFeesAndTrucking ==
    applied = "san_diego_county_scraper" =>
        /\ computed.total_price_per_load.t = "float"
        /\ Hundredths(computed.total_price_per_load)
             = FeeCents(given.dump_fee) + Hundredths(computed.trucking_price_per_load)
               + FeeCents(given.ldp_fee)

\* Dump fee 45 and LDP fee 20 on top of the trucking price of a permit 17.3
\* miles out.
C24_Witness ==
    /\ applied = "san_diego_county_scraper"
    /\ given.dump_fee = Float(Rat(45, 1))
    /\ given.ldp_fee = Float(Rat(20, 1))
    /\ Hundredths(given.distance_miles) = 1730
    /\ Hundredths(computed.total_price_per_load)
         = 4500 + Hundredths(computed.trucking_price_per_load) + 2000

\* A permit without a dump fee and without an LDP fee: the total is the
\* trucking price.
C24_WitnessAbsentFees ==
    /\ applied = "san_diego_county_scraper"
    /\ given.dump_fee = NoAmount
    /\ given.ldp_fee = NoAmount
    /\ computed.total_price_per_load = computed.trucking_price_per_load

\* --------------------------------------------------------------------- C25
\* The providers the geocode_address call in progress has asked so far.
AskedSoFar == { tried[k].provider : k \in 1..Len(tried) }

\* A step sends at most one request, and a request of a geocode_address call
\* goes to a provider that call has not asked before.
C25_NoRetryStep ==
    /\ Len(calls') <= Len(calls) + 1
    /\ (Len(calls') = Len(calls) + 1 /\ pc \in { "tier1", "tier2", "tier3", "tier4" })
          => calls'[Len(calls')].provider \notin AskedSoFar

\* C25: nothing is retried: within one geocode_address call no adapter is
\* invoked twice (at most four requests, to four different providers), and
\* an adapter call issues at most one request.
C25_NothingIsRetried ==
    /\ [](Cardinality(AskedSoFar) = Len(tried) /\ Len(tried) <= 4)
    /\ [][C25_NoRetryStep]_vars

\* All four adapters have been asked for one address and none delivered.
C25_Witness ==
    /\ pc = "failed"
    /\ AskedSoFar = { "geocodio", "google", "opencage", "nominatim" }
    /\ Len(calls) = 4

\* --------------------------------------------------------------------- C26
\* Neither leading nor trailing whitespace.
IsTrimmed(addr) == addr # <<>> /\ addr[1] # SPACE /\ addr[Len(addr)] # SPACE

\* C26 (as claimed): every address a request carries, per-address or batch,
\* is a trimmed input address.
C26_SentAddressesAreTrimmed ==
    \A j \in 1..Len(calls) : \A k \in 1..Len(calls[j].payload) :
        /\ IsTrimmed(calls[j].payload[k])
        /\ \E i \in 1..Len(addresses) : calls[j].payload[k] = Trimmed(addresses[i])

\* What does hold: the per-address path sends trimmed addresses only.
PerAddressRequestsAreTrimmed ==
    \A j \in SingleCalls : \A k \in 1..Len(calls[j].payload) :
        IsTrimmed(calls[j].payload[k])

\* --------------------------------------------------------------------- C27
\* The dedup map the scraper built for the permits of its run.
ScraperMap == Extract(permits).permit_address_map

\* 0-based positions of the permits with a non-blank address.
NonBlankPermits == { q \in 0..(Len(permits) - 1) : ~IsBlank(permits[q + 1]) }

\* C27 (as claimed): in the scraper's map every permit position with a
\* non-blank address is in exactly one bucket, no bucket is empty, and there
\* are as many buckets as distinct non-blank (trimmed) addresses.
C27_DedupMapPartitionsPositions ==
    caller = "scraper" =>
        /\ \A q \in NonBlankPermits :
              Cardinality({ k \in DOMAIN ScraperMap : InBucket(ScraperMap, k, q) }) = 1
        /\ \A k \in DOMAIN ScraperMap : ScraperMap[k] # <<>>
        /\ Cardinality(DOMAIN ScraperMap)
             = Cardinality({ Trimmed(permits[q + 1]) : q \in NonBlankPermits })

\* What does hold: every such position is in exactly one bucket, and only
\* such positions are in buckets.
EveryPermitInOneBucket ==
    caller = "scraper" =>
        \A q \in 0..(Len(permits) - 1) :
            Cardinality({ k \in DOMAIN ScraperMap : InBucket(ScraperMap, k, q) })
               = IF q \in NonBlankPermits THEN 1 ELSE 0

\* --------------------------------------------------------------------- C28
SuccessSum ==
    stats.geocodio_success + stats.google_success + stats.opencage_success
    + stats.nominatim_success

SuccessCounters ==
    << stats.geocodio_success, stats.google_success, stats.opencage_success,
       stats.nominatim_success >>

\* An adapter delivered a result that geocode_address did not return: it
\* was below the threshold.
RejectsResult ==
    /\ Len(tried') = Len(tried) + 1
    /\ ~tried'[Len(tried')].result.isNone
    /\ pc' # "raised"

\* C28 (as claimed): between per-address resolutions the four success
\* counters add up to total_requests - failures, and a result rejected by
\* the threshold increments no success counter.
C28_SuccessesAreReturnedResults ==
    /\ []((BatchCalls = {} /\ pc \in { "loop", "done" })
            => SuccessSum = stats.total_requests - stats.failures)
    /\ [][RejectsResult => SuccessCounters' = SuccessCounters]_vars

\* --------------------------------------------------------------------- C29
\* Positions of the events of one kind in the trace of the call.
Events(kind) == { k \in 1..Len(trace) : trace[k].event = kind }

RECURSIVE TwoToThe(_)
TwoToThe(n) == IF n = 0 THEN 1 ELSE 2 * TwoToThe(n - 1)

\* The call of retry_with_backoff is over.
CallOver == handler_pc \in { "returned", "raised" } /\ retries > 0

\* The k-th event is func being invoked for the attempt after the one of
\* the event before it.
IsNextAttempt(k) ==
    /\ k <= Len(trace)
    /\ trace[k].event = "call"
    /\ trace[k].attempt = trace[k - 1].attempt + 1

\* C29: a retry_with_backoff call invokes func at most max_retries + 1
\* times; it returns at the first success without invoking func again; it
\* raises only when all max_retries + 1 attempts failed, and then the
\* exception of the last one; it sleeps 2^attempt seconds after a failed
\* attempt that another attempt follows, and never after the last.
C29_RetryWithBackoffIsBounded ==
    /\ Cardinality(Events("call")) <= max_retries + 1
    /\ \A k \in Events("call") : trace[k].attempt = Cardinality({ j \in Events("call") : j < k })
    /\ \A k \in Events("return") :
          /\ k = Len(trace)
          /\ handler_pc = "returned"
          /\ trace[k - 1].event = "call"
          /\ Events("error") = { j + 1 : j \in Events("call") \ { k - 1 } }
    /\ handler_pc = "raised" =>
          /\ Cardinality(Events("call")) = max_retries + 1
          /\ Events("return") = {}
          /\ trace[Len(trace)] = [event |-> "raise", attempt |-> max_retries,
                                  seconds |-> 0, severity |-> "none"]
    /\ (CallOver /\ Events("return") = {} /\ max_retries >= 0) => handler_pc = "raised"
    /\ \A k \in Events("sleep") :
          /\ trace[k].seconds = TwoToThe(trace[k].attempt)
          /\ trace[k].attempt < max_retries
          /\ trace[k - 1].event = "error" /\ trace[k - 1].attempt = trace[k].attempt
          /\ k = Len(trace) => handler_pc = "attempt"
          /\ k < Len(trace) => IsNextAttempt(k + 1)
    /\ \A k \in Events("error") :
          trace[k].attempt < max_retries => (k < Len(trace) => trace[k + 1].event = "sleep")

\* All four attempts of a handler with three retries failed: it slept 1, 2
\* and 4 seconds in between and raised.
C29_Witness ==
    /\ handler_pc = "raised"
    /\ max_retries = 3
    /\ Cardinality(Events("call")) = 4
    /\ { trace[k].seconds : k \in Events("sleep") } = { 1, 2, 4 }
    /\ Cardinality(Events("sleep")) = 3

\* The third attempt succeeded and the call returned.
C29_WitnessReturned ==
    /\ handler_pc = "returned"
    /\ Cardinality(Events("call")) = 3
    /\ Cardinality(Events("sleep")) = 2
    /\ trace[Len(trace)].event = "return"

\* --------------------------------------------------------------------- C30
WithSeverity(severity) == { k \in 1..Len(errors) : errors[k].severity = severity }

\* The step is an attempt of retry_with_backoff that failed.
AttemptFails == handler_pc = "attempt" /\ handler_pc' \in { "backoff", "raised" }

\* The step belongs to retry_with_backoff.
RetryStep == handler_pc \in { "attempt", "backoff" } \/ retries' # retries

C30_Step ==
    /\ AttemptFails =>
          /\ Len(errors') = Len(errors) + 1
          /\ SubSeq(errors', 1, Len(errors)) = errors
          /\ errors'[Len(errors')].severity
               = IF attempt = max_retries THEN "high" ELSE "low"
          /\ attempt = max_retries <=> handler_pc' = "raised"
    /\ (RetryStep /\ ~AttemptFails) => errors' = errors
    /\ (AttemptFails /\ attempt # max_retries) => (ShouldFailWorkflow' <=> ShouldFailWorkflow)
    /\ ShouldFailWorkflow => ShouldFailWorkflow'

\* C30: retry_with_backoff records exactly one error per failed attempt, LOW
\* for an attempt that is retried and HIGH only for the last, exhausted one;
\* the errors of retries that ended in success never make
\* should_fail_workflow true, which holds exactly when the errors contain a
\* CRITICAL one or at least three HIGH ones, and stays true once true.
C30_RetryErrorsAndWorkflowFailure ==
    /\ [](ShouldFailWorkflow <=>
             (WithSeverity("critical") # {} \/ Cardinality(WithSeverity("high")) >= 3))
    /\ []((WithSeverity("low") = 1..Len(errors)) => ~ShouldFailWorkflow)
    /\ [][C30_Step]_vars

\* Three calls exhausted their retries: three HIGH errors and no CRITICAL
\* one make the workflow fail.
C30_Witness ==
    /\ ShouldFailWorkflow
    /\ WithSeverity("critical") = {}
    /\ Cardinality(WithSeverity("high")) = 3
    /\ handler_pc = "raised"

\* Three calls succeeded after retries: LOW errors only, no failure.
C30_WitnessSuccessAfterRetries ==
    /\ retries = MaxCalls
    /\ handler_pc = "returned"
    /\ Len(errors) >= 3
    /\ WithSeverity("low") = 1..Len(errors)
    /\ ~ShouldFailWorkflow

====
